---- MODULE Spec2Model ----
(***************************************************************************)
(* A model of src/src/data_structures.hpp: the class template array2d<T>,   *)
(* a vector of row vectors with public georeferencing fields.              *)
(*                                                                         *)
(* A grid object is a record: its private `data` (a sequence of rows, each *)
(* a sequence of cells) and the public fields cellsize, xllcorner,         *)
(* yllcorner, data_cells and no_data.  Two objects, "A" and "B", exist;     *)
(* elemType gives the template argument of each.  `last` records the last  *)
(* member function called, its arguments and what it returned; `status`    *)
(* says whether the process is still running.                              *)
(*                                                                         *)
(* data[0] of an empty vector and data[y][x] past the end of a row are     *)
(* undefined behaviour.  They are modelled as a choice between a fault     *)
(* (the process stops) and going on with an arbitrary value read, or with  *)
(* the stray write landing outside the grid's own cells.                   *)
(***************************************************************************)
EXTENDS Integers, Sequences, FiniteSets, TLC

VARIABLES grid, elemType, last, status

vars == <<grid, elemType, last, status>>

---------------------------------------------------------------------------
(* Bounds of the model *)

\* largest width and height passed to resize where cell contents are tracked
MaxDim == 2
\* largest width and height passed to resize in the predicate specification
MaxPredDim == 5

---------------------------------------------------------------------------
(* Element types and their arithmetic *)

GridIds == {"A", "B"}

\* the template arguments of the six typedefs
Types == {"double", "float", "schar", "bool", "uint", "int"}

\* the values a caller stores in cells; T() is 0 for every element type
CellVals == {0, 1}

\* A no_data value is written hi * 2^32 + lo, which keeps the values of
\* unsigned int above 2^31 within 32-bit arithmetic.
Num(hi, lo) == [hi |-> hi, lo |-> lo]

Lit(k) == Num(0, k)

\* two's complement reduction of k to `bits` bits
Wrap(k, bits) ==
  LET m == 2 ^ bits
      r == k % m
  IN  IF r >= m \div 2 THEN r - m ELSE r

\* k rounded to the nearest multiple of u, ties to the even multiple (k >= 0)
RoundTo(k, u) ==
  LET q == k \div u
      r == k % u
  IN  IF 2 * r > u \/ (2 * r = u /\ q % 2 = 1) THEN (q + 1) * u ELSE q * u

\* spacing of the binary32 numbers around magnitude k: 24 bits of mantissa
RECURSIVE Ulp(_)
Ulp(k) == IF k < 2 ^ 24 THEN 1 ELSE 2 * Ulp(k \div 2)

\* the nearest binary32 number to n
ToFloat(n) ==
  IF n.hi = 0
  THEN IF n.lo >= 0 THEN Num(0, RoundTo(n.lo, Ulp(n.lo)))
                    ELSE Num(0, 0 - RoundTo(0 - n.lo, Ulp(0 - n.lo)))
  ELSE IF n.lo < 0 THEN Num(n.hi, 0 - RoundTo(0 - n.lo, 256))
                   ELSE Num(n.hi, RoundTo(n.lo, 512))

\* implicit conversion of a (whole, in-range) number to the element type T
Conv(n, T) ==
  CASE T = "bool"   -> Num(0, IF n.hi = 0 /\ n.lo = 0 THEN 0 ELSE 1)
    [] T = "schar"  -> Num(0, Wrap(n.lo, 8))
    [] T = "int"    -> Num(0, n.lo)
    [] T = "uint"   -> Num(IF n.lo < 0 THEN 1 ELSE 0, n.lo)
    [] T = "float"  -> ToFloat(n)
    [] T = "double" -> n

\* sizeof(T) on the LP64 targets the package is built for
SizeOf(T) ==
  CASE T = "double" -> 8
    [] T = "float"  -> 4
    [] T = "schar"  -> 1
    [] T = "bool"   -> 1
    [] T = "uint"   -> 4
    [] T = "int"    -> 4

---------------------------------------------------------------------------
(* The grid object *)

\* array2d<T>::array2d(): data is an empty vector, every field is set to -1
DefaultGrid(T) ==
  [data       |-> <<>>,
   cellsize   |-> -1,
   xllcorner  |-> -1,
   yllcorner  |-> -1,
   data_cells |-> -1,
   no_data    |-> Conv(Lit(-1), T)]

\* what a call returned or did: the operation, the object it was called on,
\* the other object of a two-object call, its arguments, the number and the
\* truth value it returned, whether it touched a cell that is not stored,
\* and the megabytes resize printed
Call(op, g, o, x, y, v, retN, retB, oob, mb) ==
  [op |-> op, g |-> g, o |-> o, x |-> x, y |-> y, v |-> v,
   retN |-> retN, retB |-> retB, oob |-> oob, mb |-> mb]

\* the outcome of evaluating an expression that may be undefined
Ok(k) == [ok |-> TRUE, val |-> k]

Fault == [ok |-> FALSE, val |-> 0]

\* data.size()
height(d) == Len(d)

\* data[0].size(): data[0] does not exist in an empty vector, and reading it
\* either faults or yields whatever lies there
width(d) ==
  IF Len(d) = 0
  THEN {Fault} \cup {Ok(k) : k \in 0..MaxDim}
  ELSE {Ok(Len(d[1]))}

\* std::vector::resize(n, row): rows past n are dropped, missing rows are
\* appended as copies of `row`, and the rows already stored are kept as they are
vector_resize(d, n, row) ==
  IF n <= Len(d)
  THEN SubSeq(d, 1, n)
  ELSE d \o [i \in 1..(n - Len(d)) |-> row]

\* std::vector<T>(w): w value-initialised cells
new_row(w) == [j \in 1..w |-> 0]

\* the number printed by resize's fprintf
approx_ram(w, h, T) == ((w * h * SizeOf(T)) \div 1024) \div 1024

Running == status = "running"

\* array2d<T>::resize(width, height)
resize(g, w, h) ==
  /\ Running
  /\ grid' = [grid EXCEPT ![g].data = vector_resize(@, h, new_row(w))]
  /\ last' = Call("resize", g, g, w, h, 0, 0, FALSE, FALSE,
                  approx_ram(w, h, elemType[g]))
  /\ UNCHANGED <<elemType, status>>

\* array2d<T>::clear()
clear(g) ==
  /\ Running
  /\ grid' = [grid EXCEPT ![g].data = <<>>]
  /\ last' = Call("clear", g, g, 0, 0, 0, 0, FALSE, FALSE, 0)
  /\ UNCHANGED <<elemType, status>>

\* whether data[y][x] is a stored cell (x and y count from 0)
stored(d, x, y) == y >= 0 /\ y < Len(d) /\ x >= 0 /\ x < Len(d[y + 1])

\* the cells init's two loops visit when width() evaluates to W
visited(d, W) == (0..(W - 1)) \X (0..(height(d) - 1))

\* data after operator()(x,y)=val on every visited cell that is stored
filled(d, W, val) ==
  [r \in 1..Len(d) |-> [c \in 1..Len(d[r]) |-> IF c <= W THEN val ELSE d[r][c]]]

\* array2d<T>::init(val): for x < width(), for y < height(): data[y][x] = val.
\* A visited cell that is not stored is written past the end of its row.
init(g, val) ==
  /\ Running
  /\ \E wo \in width(grid[g].data) :
       IF ~wo.ok
       THEN /\ status' = "fault"
            /\ last' = Call("init", g, g, 0, 0, val, 0, FALSE, FALSE, 0)
            /\ UNCHANGED grid
       ELSE LET d     == grid[g].data
                stray == {c \in visited(d, wo.val) : ~stored(d, c[1], c[2])}
            IN  /\ grid' = [grid EXCEPT ![g].data = filled(d, wo.val, val)]
                /\ last' = Call("init", g, g, 0, 0, val, 0, FALSE, stray # {}, 0)
                /\ IF stray # {}
                   THEN status' \in {"running", "fault"}
                   ELSE status' = "running"
  /\ UNCHANGED elemType

\* operator()(x, y) = val: data[y][x] is written with no bounds check
assign_cell(g, x, y, val) ==
  /\ Running
  /\ IF stored(grid[g].data, x, y)
     THEN /\ grid' = [grid EXCEPT ![g].data[y + 1][x + 1] = val]
          /\ status' = "running"
     ELSE /\ UNCHANGED grid
          /\ status' \in {"running", "fault"}
  /\ last' = Call("operator()", g, g, x, y, val, 0, FALSE,
                  ~stored(grid[g].data, x, y), 0)
  /\ UNCHANGED elemType

\* the georeferencing a caller reads from a raster file's header
Header ==
  [cellsize |-> 30, xllcorner |-> 0, yllcorner |-> 100, data_cells |-> 4,
   no_data |-> Lit(-9999)]

\* a caller assigns the public fields; no_data is converted to T
assign_fields(g, hdr) ==
  /\ Running
  /\ grid' = [grid EXCEPT ![g].cellsize   = hdr.cellsize,
                          ![g].xllcorner  = hdr.xllcorner,
                          ![g].yllcorner  = hdr.yllcorner,
                          ![g].data_cells = hdr.data_cells,
                          ![g].no_data    = Conv(hdr.no_data, elemType[g])]
  /\ last' = Call("fields", g, g, 0, 0, 0, 0, FALSE, FALSE, 0)
  /\ UNCHANGED <<elemType, status>>

\* a truth value, or the fault of evaluating it
OkB(b) == [ok |-> TRUE, val |-> b]

FaultB == [ok |-> FALSE, val |-> FALSE]

\* in_grid(x, y): x>=0 && y>=0 && x<width() && y<height(), left to right
in_grid(d, x, y) ==
  IF ~(x >= 0 /\ y >= 0)
  THEN {OkB(FALSE)}
  ELSE {IF wo.ok THEN OkB(x < wo.val /\ y < height(d)) ELSE FaultB :
          wo \in width(d)}

\* interior_grid with the last column and the last row counted as interior
interior_grid_to_last(d, x, y) ==
  IF ~(x >= 1 /\ y >= 1)
  THEN {OkB(FALSE)}
  ELSE {IF wo.ok THEN OkB(x < wo.val /\ y < height(d)) ELSE FaultB :
          wo \in width(d)}

\* interior_grid(x, y): x>=1 && y>=1 && x<width()-1 && y<height()-1
interior_grid(d, x, y) ==
  IF ~(x >= 1 /\ y >= 1)
  THEN {OkB(FALSE)}
  ELSE {IF wo.ok THEN OkB(x < wo.val - 1 /\ y < height(d) - 1) ELSE FaultB :
          wo \in width(d)}

\* edge_grid(x, y): x==0 || y==0 || x==width()-1 || y==height()-1
edge_grid(d, x, y) ==
  IF x = 0 \/ y = 0
  THEN {OkB(TRUE)}
  ELSE {IF wo.ok THEN OkB(x = wo.val - 1 \/ y = height(d) - 1) ELSE FaultB :
          wo \in width(d)}

\* the element types estimated_output_size is specialised for; the primary
\* template declares it and defines nothing
Specialised == {"float", "char", "bool", "uint"}

\* the factor of each specialisation
Multiplier(T) ==
  CASE T = "float" -> 9
    [] T = "char"  -> 4
    [] T = "bool"  -> 2
    [] T = "uint"  -> 9

\* a caller records what a const member function returned, or its fault
Returned(op, g, x, y, out, isNum) ==
  /\ last' = Call(op, g, g, x, y, 0,
                  IF isNum THEN out.val ELSE 0,
                  IF isNum THEN FALSE ELSE out.val, FALSE, 0)
  /\ status' = IF out.ok THEN "running" ELSE "fault"
  /\ UNCHANGED <<grid, elemType>>

Eval_width(g) ==
  /\ Running
  /\ \E out \in width(grid[g].data) : Returned("width", g, 0, 0, out, TRUE)

Eval_height(g) ==
  /\ Running
  /\ Returned("height", g, 0, 0, Ok(height(grid[g].data)), TRUE)

Eval_in_grid(g, x, y) ==
  /\ Running
  /\ \E out \in in_grid(grid[g].data, x, y) :
       Returned("in_grid", g, x, y, out, FALSE)

Eval_interior_grid(g, x, y) ==
  /\ Running
  /\ \E out \in interior_grid(grid[g].data, x, y) :
       Returned("interior_grid", g, x, y, out, FALSE)

Eval_edge_grid(g, x, y) ==
  /\ Running
  /\ \E out \in edge_grid(grid[g].data, x, y) :
       Returned("edge_grid", g, x, y, out, FALSE)

\* estimated_output_size(): factor*width()*height() where T is specialised;
\* for any other T the call names a function that is defined nowhere and the
\* program does not link
estimated_output_size(g) ==
  /\ Running
  /\ IF elemType[g] \in Specialised
     THEN \E wo \in width(grid[g].data) :
            Returned("estimated_output_size", g, 0, 0,
                     IF wo.ok
                     THEN Ok(Multiplier(elemType[g]) * wo.val
                               * height(grid[g].data))
                     ELSE Fault, TRUE)
     ELSE /\ last' = Call("estimated_output_size", g, g, 0, 0, 0, 0, FALSE,
                          FALSE, 0)
          /\ status' = "undefined"
          /\ UNCHANGED <<grid, elemType>>

\* the object after copyprops' assignments and its resize(w, h), where the
\* source object `src` holds elements of another type and `me` elements of T
copied(me, T, src, w, h) ==
  [data       |-> vector_resize(me.data, h, new_row(w)),
   cellsize   |-> src.cellsize,
   xllcorner  |-> src.xllcorner,
   yllcorner  |-> src.yllcorner,
   data_cells |-> src.data_cells,
   no_data    |-> Conv(src.no_data, T)]

\* a call that copies from another object: `start` is the object the
\* assignments act on, and copyfrom.width() may fault
copy_from(op, g, from, start) ==
  /\ Running
  /\ \E wo \in width(grid[from].data) :
       IF ~wo.ok
       THEN /\ status' = "fault"
            /\ last' = Call(op, g, from, 0, 0, 0, 0, FALSE, FALSE, 0)
            /\ UNCHANGED grid
       ELSE LET w == wo.val
                h == height(grid[from].data)
            IN  /\ grid' = [grid EXCEPT
                              ![g] = copied(start, elemType[g], grid[from], w, h)]
                /\ last' = Call(op, g, from, w, h, 0, 0, FALSE, FALSE,
                                approx_ram(w, h, elemType[g]))
                /\ status' = "running"
  /\ UNCHANGED elemType

\* copyprops(copyfrom): the five fields are assigned, no_data converted from
\* U to T, and the grid is resized to copyfrom.width() by copyfrom.height()
copyprops(g, from) == copy_from("copyprops", g, from, grid[g])

\* array2d(const array2d<U> &copyfrom): *this=array2d(); copyprops(copyfrom)
copy_construct(g, from) ==
  copy_from("array2d(copyfrom)", g, from, DefaultGrid(elemType[g]))

\* the cells operator=='s loops visit, in the order they visit them
scan_order(W, H) == [k \in 1..(W * H) |-> <<(k - 1) \div H, (k - 1) % H>>]

\* the outcomes of the comparison loop over the cells still to visit: a cell
\* missing from either grid is read past the end of its row, which faults or
\* yields a value that differs or not
RECURSIVE scan(_, _, _)
scan(a, b, cells) ==
  IF cells = <<>>
  THEN {OkB(TRUE)}
  ELSE LET x == Head(cells)[1]
           y == Head(cells)[2]
       IN  IF ~stored(a, x, y) \/ ~stored(b, x, y)
           THEN {FaultB, OkB(FALSE)} \cup scan(a, b, Tail(cells))
           ELSE IF a[y + 1][x + 1] # b[y + 1][x + 1]
                THEN {OkB(FALSE)}
                ELSE scan(a, b, Tail(cells))

\* operator==(other): false when width() or height() differ, else false at
\* the first visited cell that differs, else true
equals(a, b) ==
  UNION {IF ~wa.ok \/ ~wb.ok
         THEN {FaultB}
         ELSE IF wa.val # wb.val \/ height(a) # height(b)
              THEN {OkB(FALSE)}
              ELSE scan(a, b, scan_order(wa.val, height(a))) :
           wa \in width(a), wb \in width(b)}

Eval_equals(g, other) ==
  /\ Running
  /\ \E out \in equals(grid[g].data, grid[other].data) :
       /\ last' = Call("operator==", g, other, 0, 0, 0, 0, out.val, FALSE, 0)
       /\ status' = IF out.ok THEN "running" ELSE "fault"
       /\ UNCHANGED <<grid, elemType>>

---------------------------------------------------------------------------
(* One grid: its life and its queries *)

Constructed(g) == Call("array2d", g, g, 0, 0, 0, 0, FALSE, FALSE, 0)

Init ==
  /\ \E T \in Types : elemType = [g \in GridIds |-> T]
  /\ grid = [g \in GridIds |-> DefaultGrid(elemType[g])]
  /\ last = Constructed("A")
  /\ status = "running"

\* the coordinates a caller asks about: one step outside a grid on each side
Coords == (0 - 1)..MaxDim

\* the widths and heights a caller asks resize for: a raster has cells
Sizes == 1..MaxDim

Next ==
  \/ \E w, h \in Sizes : resize("A", w, h)
  \/ clear("A")
  \/ \E v \in CellVals : init("A", v)
  \/ \E x, y \in 0..(MaxDim - 1), v \in CellVals : assign_cell("A", x, y, v)
  \/ assign_fields("A", Header)
  \/ copyprops("A", "B")
  \/ Eval_width("A")
  \/ Eval_height("A")
  \/ \E x, y \in Coords : Eval_in_grid("A", x, y)
  \/ estimated_output_size("A")

Spec == Init /\ [][Next]_vars

---------------------------------------------------------------------------
(* Two grids of any two element types: copying the properties of B into A *)

InitCopy ==
  /\ elemType \in [GridIds -> Types]
  /\ grid = [g \in GridIds |-> DefaultGrid(elemType[g])]
  /\ last = Constructed("A")
  /\ status = "running"

NextCopy ==
  \/ \E g \in GridIds : \E w, h \in Sizes : resize(g, w, h)
  \/ clear("A")
  \/ assign_fields("B", Header)
  \/ copyprops("A", "B")
  \/ copy_construct("A", "B")

SpecCopy == InitCopy /\ [][NextCopy]_vars

---------------------------------------------------------------------------
(* Two grids of one element type: comparing A with B *)

InitEq ==
  /\ \E T \in Types : elemType = [g \in GridIds |-> T]
  /\ grid = [g \in GridIds |-> DefaultGrid(elemType[g])]
  /\ last = Constructed("A")
  /\ status = "running"

NextEq ==
  \/ \E g \in GridIds : \E w, h \in Sizes : resize(g, w, h)
  \/ \E g \in GridIds : clear(g)
  \/ \E g \in GridIds : \E v \in CellVals : init(g, v)
  \/ \E x, y \in 0..(MaxDim - 1), v \in CellVals : assign_cell("A", x, y, v)
  \/ Eval_equals("A", "B")

SpecEq == InitEq /\ [][NextEq]_vars

---------------------------------------------------------------------------
(* One grid of up to MaxPredDim rows and columns: the coordinate predicates *)

PredCoords == (0 - 1)..MaxPredDim

InitPred ==
  /\ \E T \in Types : elemType = [g \in GridIds |-> T]
  /\ grid = [g \in GridIds |-> DefaultGrid(elemType[g])]
  /\ last = Constructed("A")
  /\ status = "running"

\* the caller sizes a grid that holds no rows: a new one, or one it cleared
NextPred ==
  \/ \E w, h \in 0..MaxPredDim :
       grid["A"].data = <<>> /\ resize("A", w, h)
  \/ clear("A")
  \/ \E x, y \in PredCoords : Eval_in_grid("A", x, y)
  \/ \E x, y \in PredCoords : Eval_interior_grid("A", x, y)
  \/ \E x, y \in PredCoords : Eval_edge_grid("A", x, y)

SpecPred == InitPred /\ [][NextPred]_vars

---------------------------------------------------------------------------
(* The claims *)

\* every evaluation of width() on d yields k
WidthIs(d, k) == width(d) = {Ok(k)}

\* the five public fields of an object
Fields(r) ==
  <<r.cellsize, r.xllcorner, r.yllcorner, r.data_cells, r.no_data>>

\* the truth of the C++ comparison  v == k  for v of type T and an int k:
\* k is converted to unsigned int when T is, and v is promoted otherwise
EqualsInt(T, v, k) ==
  IF T = "uint" THEN v = Conv(Lit(k), "uint") ELSE v = Lit(k)

\* C1: after resize(w, h) with w, h >= 1, from any state of the grid,
\* width() is w and height() is h.
C1_ResizeSetsWidthAndHeight ==
  (last.op = "resize" /\ last.x >= 1 /\ last.y >= 1) =>
    /\ WidthIs(grid[last.g].data, last.x)
    /\ height(grid[last.g].data) = last.y

\* C2: in every reachable state all stored rows have the same length.
C2_RowsHaveIdenticalLength ==
  \A g \in GridIds :
    \A r \in 1..Len(grid[g].data) :
      Len(grid[g].data[r]) = Len(grid[g].data[1])

\* C3: init(v) returns without a fault, writes only stored cells, and then
\* every (x, y) for which in_grid holds is a stored cell that holds v.
C3_InitFillsEveryInGridCell ==
  last.op = "init" =>
    /\ status = "running"
    /\ ~last.oob
    /\ \A x, y \in Coords :
         in_grid(grid[last.g].data, x, y) = {OkB(TRUE)} =>
           /\ stored(grid[last.g].data, x, y)
           /\ grid[last.g].data[y + 1][x + 1] = last.v

\* C4: after copyprops(S) on D, or D's construction from S, where S stores
\* at least one row and D has S's element type, D's five fields equal S's
\* and D's width() and height() equal S's.
C4_CopypropsCopiesFieldsAndDimensions ==
  (/\ last.op \in {"copyprops", "array2d(copyfrom)"}
   /\ elemType[last.g] = elemType[last.o]
   /\ height(grid[last.o].data) >= 1) =>
    /\ status = "running"
    /\ Fields(grid[last.g]) = Fields(grid[last.o])
    /\ width(grid[last.g].data) = width(grid[last.o].data)
    /\ height(grid[last.g].data) = height(grid[last.o].data)

\* width() and height() as the claims mean them: 0 by 0 when no row is stored
Dims(d) == <<IF Len(d) = 0 THEN 0 ELSE Len(d[1]), Len(d)>>

\* the two grids have the same dimensions and every coordinate within them
\* is a stored cell of both, with equal values
SameCells(a, b) ==
  /\ Dims(a) = Dims(b)
  /\ \A x \in 0..(Dims(a)[1] - 1), y \in 0..(Dims(a)[2] - 1) :
       /\ stored(a, x, y)
       /\ stored(b, x, y)
       /\ a[y + 1][x + 1] = b[y + 1][x + 1]

\* C5: A == B returns, without a failure, true exactly when the two grids
\* have the same width and height and equal cells.
C5_EqualityIffSameDimensionsAndCells ==
  last.op = "operator==" =>
    /\ status = "running"
    /\ last.retB <=> SameCells(grid[last.g].data, grid[last.o].data)

\* C6: clear() leaves width() = 0 and height() = 0 and changes none of the
\* five fields.
C6_ClearEmptiesGridAndKeepsFields ==
  [][last'.op = "clear" =>
       /\ WidthIs(grid'[last'.g].data, 0)
       /\ height(grid'[last'.g].data) = 0
       /\ Fields(grid'[last'.g]) = Fields(grid[last'.g])]_vars

\* C7: a default-constructed grid of any of the six element types has
\* width() = 0, height() = 0 and every field equal to -1.
C7_DefaultGridIsEmptyAndUnset ==
  last.op = "array2d" =>
    /\ WidthIs(grid[last.g].data, 0)
    /\ height(grid[last.g].data) = 0
    /\ grid[last.g].cellsize = -1
    /\ grid[last.g].xllcorner = -1
    /\ grid[last.g].yllcorner = -1
    /\ grid[last.g].data_cells = -1
    /\ EqualsInt(elemType[last.g], grid[last.g].no_data, -1)

\* C8: on a grid that stores rows, for every (x, y) with in_grid(x, y),
\* exactly one of interior_grid(x, y) and edge_grid(x, y) is true; on a grid
\* of width 5 and height 5, interior_grid is true exactly for x, y in 1..3.
C8_EdgeAndInteriorPartitionTheGrid ==
  LET d == grid[last.g].data
      x == last.x
      y == last.y
  IN  (status = "running" /\ height(d) > 0) =>
        /\ (last.op = "in_grid" /\ last.retB) =>
             \E b \in BOOLEAN : /\ interior_grid(d, x, y) = {OkB(b)}
                                /\ edge_grid(d, x, y) = {OkB(~b)}
        /\ (last.op = "interior_grid" /\ in_grid(d, x, y) = {OkB(TRUE)}) =>
             edge_grid(d, x, y) = {OkB(~last.retB)}
        /\ (last.op = "edge_grid" /\ in_grid(d, x, y) = {OkB(TRUE)}) =>
             interior_grid(d, x, y) = {OkB(~last.retB)}
        /\ (last.op = "interior_grid" /\ WidthIs(d, 5) /\ height(d) = 5) =>
             (last.retB <=> (x \in 1..3 /\ y \in 1..3))

\* C8 happens: interior_grid returned true on a grid of width 5 and height 5,
\* at a coordinate that in_grid accepts and edge_grid rejects
C8_Witness ==
  /\ status = "running"
  /\ last.op = "interior_grid"
  /\ last.retB
  /\ WidthIs(grid[last.g].data, 5)
  /\ height(grid[last.g].data) = 5
  /\ in_grid(grid[last.g].data, last.x, last.y) = {OkB(TRUE)}
  /\ edge_grid(grid[last.g].data, last.x, last.y) = {OkB(FALSE)}

\* C9: in_grid(x, y) returns, on every grid, the empty one included, true
\* exactly when 0 <= x < width() and 0 <= y < height().
C9_InGridIffWithinBounds ==
  last.op = "in_grid" =>
    /\ status = "running"
    /\ last.retB <=>
         /\ 0 <= last.x
         /\ 0 <= last.y
         /\ last.y < height(grid[last.g].data)
         /\ \E k \in 0..MaxDim : /\ WidthIs(grid[last.g].data, k)
                                 /\ last.x < k

\* the factor the specification gives each element type
ClaimedMultiplier(T) ==
  CASE T = "float" -> 9
    [] T = "uint"  -> 9
    [] T = "schar" -> 4
    [] T = "bool"  -> 2

\* C10: on a grid that stores rows, estimated_output_size() returns
\* factor * width() * height() with factor 9 for float_2d and uint_2d, 4 for
\* char_2d and 2 for bool_2d; for the other element types it yields no value.
C10_EstimateUsesTheTypesMultiplier ==
  (last.op = "estimated_output_size" /\ height(grid[last.g].data) > 0) =>
    IF elemType[last.g] \in {"float", "uint", "schar", "bool"}
    THEN /\ status = "running"
         /\ WidthIs(grid[last.g].data,
                    last.retN \div (ClaimedMultiplier(elemType[last.g])
                                      * height(grid[last.g].data)))
         /\ last.retN % (ClaimedMultiplier(elemType[last.g])
                           * height(grid[last.g].data)) = 0
    ELSE status = "undefined"

====
